---- MODULE Spec2Model ----
(***************************************************************************)
(* Model of src/hotspot/share/gc/shared/gcTraceTime.cpp:                   *)
(*   GCTraceTimeLoggerImpl (log_start / log_end)  -- the "EventTimer"      *)
(*   GCTraceCPUTime (constructor / destructor)    -- the "CPUTimeSampler"  *)
(*                                                                         *)
(* Every call the code makes on a collaborator (LogStream print/cr, heap   *)
(* accessor, syscall, malloc/free, os::getTimesSecs, log_warning/log_info, *)
(* tracer) is recorded, in program order, as one event of a trace.         *)
(*                                                                         *)
(* TLC integers are 32 bits wide, so a size_t (64 bits, LP64) is a         *)
(* sequence of four 16-bit limbs and an unsigned int a sequence of two,    *)
(* most significant limb first.                                            *)
(***************************************************************************)
EXTENDS Integers, Sequences, FiniteSets

----------------------------------------------------------------------------
(* Bounds of the model *)

\* Ticks passed to log_start / log_end range over 0..MaxTick.
MaxTick == 1
\* The major-fault counter returns 0..MaxCounter, or UINT_MAX.
MaxCounter == 1
\* Heap usage / capacity are sampled at 0..MaxHeapStep steps.
MaxHeapStep == 1
\* The page-index tables the kernel may return are Table(0..MaxTable).
MaxTable == 1
\* CPU times (in clock ticks) range over 0..MaxCpuTime.
MaxCpuTime == 2
\* log_end runs at most MaxEnds times on one instance.
MaxEnds == 2

----------------------------------------------------------------------------
(* Fixed-width unsigned integers *)

LimbBase == 256 * 256
LimbMax == LimbBase - 1

\* (size_t) n for an int n: n modulo 2^64.
SizeFromInt(n) ==
  IF n >= 0
    THEN <<0, 0, n \div LimbBase, n % LimbBase>>
    ELSE <<LimbMax, LimbMax,
           LimbMax - ((-n - 1) \div LimbBase), LimbMax - ((-n - 1) % LimbBase)>>

\* (unsigned int) n for an int n: n modulo 2^32.
UIntFromInt(n) ==
  IF n >= 0
    THEN <<n \div LimbBase, n % LimbBase>>
    ELSE <<LimbMax - ((-n - 1) \div LimbBase), LimbMax - ((-n - 1) % LimbBase)>>

\* Implicit conversion unsigned int -> size_t (zero extension).
SizeFromUInt(u) == <<0, 0>> \o u

SIZE_MAX == SizeFromInt(-1)
UINT_MAX == UIntFromInt(-1)

\* Is the size_t value s in the range of unsigned int ?
InUIntRange(s) == s[1] = 0 /\ s[2] = 0

\* s / d for a size_t s and 0 < d < 2^15, by long division over the limbs.
SizeDivSmall(s, d) ==
  LET r1 == s[1] % d
      c2 == r1 * LimbBase + s[2]
      r2 == c2 % d
      c3 == r2 * LimbBase + s[3]
      r3 == c3 % d
      c4 == r3 * LimbBase + s[4]
  IN  <<s[1] \div d, c2 \div d, c3 \div d, c4 \div d>>

M == 1024 * 1024

\* Defect: the division is by K instead of M
DivM_Kilobytes(s) == SizeDivSmall(s, 1024)

\* s / M (truncating): M = LimbBase * (M / LimbBase).
DivM(s) == SizeDivSmall(<<0, s[1], s[2], s[3]>>, M \div LimbBase)

----------------------------------------------------------------------------
(* Events: one record per call on a collaborator, in program order *)

\* out.print(fmt, args...) on a LogStream
out_print(fmt, args) ==
  [ev |-> "print", fmt |-> fmt, args |-> args, nr |-> 0, mode |-> 0, ret |-> 0]
\* out.cr(): ends the line, which the LogStream then writes to its target
out_cr ==
  [ev |-> "cr", fmt |-> "", args |-> <<>>, nr |-> 0, mode |-> 0, ret |-> 0]
\* Universe::heap()->used() returning v
HeapUsed(v) ==
  [ev |-> "used", fmt |-> "", args |-> <<v>>, nr |-> 0, mode |-> 0, ret |-> 0]
\* Universe::heap()->capacity() returning v
HeapCapacity(v) ==
  [ev |-> "capacity", fmt |-> "", args |-> <<v>>, nr |-> 0, mode |-> 0, ret |-> 0]
\* syscall(nr, mode, ...) returning ret; out is what the kernel wrote back
Syscall(nr, mode, out, ret) ==
  [ev |-> "syscall", fmt |-> "", args |-> out, nr |-> nr, mode |-> mode, ret |-> ret]
\* malloc(...) returning a pointer (ret = 1) or NULL (ret = 0)
Malloc(ret) ==
  [ev |-> "malloc", fmt |-> "", args |-> <<>>, nr |-> 0, mode |-> 0, ret |-> ret]
Free ==
  [ev |-> "free", fmt |-> "", args |-> <<>>, nr |-> 0, mode |-> 0, ret |-> 0]

SIZE_FORMAT == "%zu"

\* The format of the usage / majflt segment of the end line
UsageFormat ==
  " " \o SIZE_FORMAT \o "M->" \o SIZE_FORMAT \o "M(" \o SIZE_FORMAT \o "M) " \o
  "majflt(" \o SIZE_FORMAT \o "->" \o SIZE_FORMAT \o ")"

DurationFormat == " %.3fms"

\* The kind of an event: the call it records
Kind(e) ==
  CASE e.ev = "syscall" /\ e.nr = 452 -> "read452"
    [] e.ev = "syscall" /\ e.nr = 455 /\ e.mode = 3 -> "query"
    [] e.ev = "syscall" /\ e.nr = 455 /\ e.mode = 2 -> "reset"
    [] e.ev = "print" /\ e.fmt = DurationFormat -> "duration"
    [] e.ev = "print" /\ e.fmt = UsageFormat -> "usage"
    [] OTHER -> e.ev

\* The indices of the events of kind k in trace t
Where(t, k) == {i \in 1..Len(t) : Kind(t[i]) = k}
\* The one event of kind k in trace t
The(t, k) == t[CHOOSE i \in Where(t, k) : TRUE]
Has(t, k) == Where(t, k) /= {}
Count(t, k) == Cardinality(Where(t, k))

IsPrint(e) == e.ev \in {"print", "print_each"}

\* The lines a LogStream wrote: line k is the sequence of print calls
\* between the (k-1)-th and the k-th cr.
NumLines(t) == Count(t, "cr")
LineEnd(t, k) ==
  LET crs == Where(t, "cr")
  IN  CHOOSE i \in crs : Cardinality({j \in crs : j <= i}) = k
LineOf(t, k) ==
  LET hi == LineEnd(t, k)
      lo == IF k = 1 THEN 0 ELSE LineEnd(t, k - 1)
  IN  SelectSeq(SubSeq(t, lo + 1, hi - 1), IsPrint)

----------------------------------------------------------------------------
(* Strings that the code inspects are sequences of characters *)

\* strstr(h, n) != nullptr
StrStr(h, n) ==
  \E i \in 1..(Len(h) - Len(n) + 1) : SubSeq(h, i, i + Len(n) - 1) = n

PauseFull == <<"P", "a", "u", "s", "e", " ", "F", "u", "l", "l">>
PauseYoung == <<"P", "a", "u", "s", "e", " ", "Y", "o", "u", "n", "g">>

\* Titles an event may be given
Titles ==
  { PauseYoung,
    PauseFull,
    <<"S", "T", "W", " ">> \o PauseFull \o <<" ", "2">>,
    SubSeq(PauseFull, 1, 9) }

\* GCCause::Cause values, and GCCause::to_string
NoGC == "_no_gc"
Causes == {NoGC, "_java_lang_system_gc"}
GCCause_to_string(c) ==
  CASE c = "_java_lang_system_gc" -> "System.gc()"
    [] c = NoGC -> "No GC"

NumIndices == 2048

----------------------------------------------------------------------------
(* Inputs from the environment *)

Ticks == 0..MaxTick

\* Values of stats.majflt (unsigned int) the kernel may report
Counters == {UIntFromInt(n) : n \in 0..MaxCounter} \cup {UINT_MAX}

\* Heap sizes in bytes: 0, 100M + 4K, 4G + 200M + 4K, ...
HeapBytes(k) == IF k = 0 THEN SizeFromInt(0) ELSE <<0, k - 1, 1600 * k, 4096>>
HeapSizes == {HeapBytes(k) : k \in 0..MaxHeapStep}
SizeLeq(a, b) ==
  \/ a = b
  \/ \E i \in 1..4 : a[i] < b[i] /\ \A j \in 1..(i - 1) : a[j] = b[j]

\* A syscall returns 0 on success and -1 on failure
SyscallResults == {0, -1}

\* Outcomes <<ret, stats.majflt>> of syscall 452; stats is written on success only
NoCounter == UIntFromInt(0)
Outcomes452 == {<<-1, NoCounter>>} \cup {<<0, c>> : c \in Counters}

\* The 2048-entry tables the page-index query may fill the buffer with are
\* Table(0), ..., Table(MaxTable); entry i (0 <= i < 2048) of Table(b) is an
\* unsigned long that is only printed, so it stays a plain number.  A trace
\* names a table by its number b.
Table(b) == [i \in 0..(NumIndices - 1) |-> b * NumIndices + i]
Tables == 0..MaxTable

\* Outcomes <<malloc result, ret of the query, table>> of the page-index query:
\* no buffer, query failed, or query succeeded and filled the buffer
PageOutcomes ==
  {<<0, -1, 0>>, <<1, -1, 0>>} \cup {<<1, 0, t>> : t \in Tables}

\* Values the constructor may leave in _majflt_before ("a default /
\* uninitialized value"): zero, the all-ones sentinel, or arbitrary bits.
MajfltDefaults == {SizeFromInt(0), SIZE_MAX, <<0, 1, 2, 3>>}

\* os::elapsed_frequency(): ticks per second
ElapsedFrequency == 1000 * 1000 * 1000

\* TimeHelper::counter_to_millis(c) = c * 1000 / frequency, as an exact
\* fraction num/den of a millisecond
counter_to_millis(c) == [num |-> c * 1000, den |-> ElapsedFrequency]

----------------------------------------------------------------------------
(* State *)

VARIABLES
  \* GCTraceTimeLoggerImpl
  _title,              \* const char* const _title
  _gc_cause,           \* const GCCause::Cause _gc_cause
  _log_heap_usage,     \* const bool _log_heap_usage
  _heap_usage_before,  \* size_t
  _majflt_before,      \* size_t
  _start,              \* Ticks
  pc,                  \* "constructed", "started", "ended"; inside a log_end
                       \* that runs step by step: "timed", "queried"
  start_events,        \* the calls log_start made
  end_events,          \* the calls the latest log_end made
  ctor_majflt,         \* history: the value the constructor left in _majflt_before
  end_tick,            \* history: the argument of the latest log_end
  ends,                \* history: the number of log_end calls so far
  \* GCTraceCPUTime
  _active,
  _starting_user_time,
  _starting_system_time,
  _starting_real_time,
  _tracer,             \* "nullptr" or "tracer"
  cpu_pc,              \* "unborn", "live", "dead"
  ctor_events,         \* the calls the constructor made
  dtor_events,         \* the calls the destructor made
  \* The page-index interface of the kernel, shared by all threads
  profile,             \* the number of the table a query returns now
  booted,              \* history: profile when the events began
  \* A concurrent "Pause Full" event on another thread, with its own instance
  other_pc,            \* "absent", "running", "queried", "ended"
  other_seen           \* the table its query returned, -1 if none

timer_vars ==
  <<_title, _gc_cause, _log_heap_usage, _heap_usage_before, _majflt_before,
    _start, pc, start_events, end_events, ctor_majflt, end_tick, ends>>
cpu_vars ==
  <<_active, _starting_user_time, _starting_system_time, _starting_real_time,
    _tracer, cpu_pc, ctor_events, dtor_events>>
kernel_vars == <<profile, booted, other_pc, other_seen>>
vars == <<timer_vars, cpu_vars, kernel_vars>>

----------------------------------------------------------------------------
(* GCTraceTimeLoggerImpl *)

\* The constructor: any title, cause and usage switch; _heap_usage_before
\* starts at the "unset" sentinel SIZE_MAX that log_end tests for.
TimerConstructed ==
  /\ _title \in Titles
  /\ _gc_cause \in Causes
  /\ _log_heap_usage \in BOOLEAN
  /\ _heap_usage_before = SIZE_MAX
  /\ _majflt_before \in MajfltDefaults
  /\ ctor_majflt = _majflt_before
  /\ _start = 0
  /\ pc = "constructed"
  /\ start_events = <<>>
  /\ end_events = <<>>
  /\ end_tick = 0
  /\ ends = 0

\* Defect: the cause is printed even when it is _no_gc
TitleEvents_AlwaysCause ==
  <<out_print("%s", <<_title>>),
    out_print(" (%s)", <<GCCause_to_string(_gc_cause)>>)>>

\* out.print("%s", _title); if (_gc_cause != _no_gc) out.print(" (%s)", ...)
TitleEvents ==
  <<out_print("%s", <<_title>>)>> \o
  (IF _gc_cause /= NoGC
     THEN <<out_print(" (%s)", <<GCCause_to_string(_gc_cause)>>)>>
     ELSE <<>>)

\* Defect: a failed major-fault read is tried again
StartReads_Retry(used, ret452, counter) ==
  IF _log_heap_usage
    THEN <<HeapUsed(used),
           Syscall(452, 0, IF ret452 = 0 THEN <<counter>> ELSE <<>>, ret452)>> \o
         (IF ret452 /= 0 THEN <<Syscall(452, 0, <<>>, ret452)>> ELSE <<>>)
    ELSE <<>>

\* What log_start reads when _log_heap_usage is set
StartReads(used, ret452, counter) ==
  IF _log_heap_usage
    THEN <<HeapUsed(used),
           Syscall(452, 0, IF ret452 = 0 THEN <<counter>> ELSE <<>>, ret452)>>
    ELSE <<>>

\* _majflt_before after log_start
StartMajflt(ret452, counter) ==
  IF _log_heap_usage /\ ret452 = 0
    THEN SizeFromUInt(counter)
    ELSE _majflt_before

\* Defect: the memory usage is read but not stored
log_start_NoSnapshot(start, used, ret452, counter) ==
  /\ pc = "constructed"
  /\ _start' = start
  /\ start_events' = TitleEvents \o <<out_cr>> \o StartReads(used, ret452, counter)
  /\ _heap_usage_before' = _heap_usage_before
  /\ _majflt_before' = StartMajflt(ret452, counter)
  /\ pc' = "started"
  /\ UNCHANGED <<_title, _gc_cause, _log_heap_usage, end_events, ctor_majflt,
                 end_tick, ends>>
  /\ UNCHANGED <<cpu_vars, kernel_vars>>

log_start(start, used, ret452, counter) ==
  /\ pc = "constructed"
  /\ _start' = start
  /\ start_events' = TitleEvents \o <<out_cr>> \o StartReads(used, ret452, counter)
  /\ _heap_usage_before' = IF _log_heap_usage THEN used ELSE _heap_usage_before
  /\ _majflt_before' = StartMajflt(ret452, counter)
  /\ pc' = "started"
  /\ UNCHANGED <<_title, _gc_cause, _log_heap_usage, end_events, ctor_majflt,
                 end_tick, ends>>
  /\ UNCHANGED <<cpu_vars, kernel_vars>>

\* Defect: a failed read shows the stored "before" value again
EndMajflt_KeepsBefore(ret452, counter) ==
  IF ret452 = 0 THEN SizeFromUInt(counter) ELSE _majflt_before

\* size_t majflt = -1; if (syscall(452, &stats) == 0) majflt = stats.majflt;
EndMajflt(ret452, counter) ==
  IF ret452 = 0 THEN SizeFromUInt(counter) ELSE SizeFromInt(-1)

\* Defect: the segment is printed whether or not usage_before was set
UsageEvents_Ungated(used, capacity, ret452, counter) ==
  <<HeapUsed(used),
    HeapCapacity(capacity),
    Syscall(452, 0, IF ret452 = 0 THEN <<counter>> ELSE <<>>, ret452),
    out_print(UsageFormat,
              <<DivM(_heap_usage_before), DivM(used), DivM(capacity),
                _majflt_before, EndMajflt(ret452, counter)>>)>>

\* The usage / majflt segment of the end line
UsageEvents(used, capacity, ret452, counter) ==
  IF _heap_usage_before /= SIZE_MAX
    THEN LET used_before_m == DivM(_heap_usage_before)
             used_m == DivM(used)
             capacity_m == DivM(capacity)
             majflt == EndMajflt(ret452, counter)
         IN  <<HeapUsed(used),
               HeapCapacity(capacity),
               Syscall(452, 0, IF ret452 = 0 THEN <<counter>> ELSE <<>>, ret452),
               out_print(UsageFormat,
                         <<used_before_m, used_m, capacity_m, _majflt_before, majflt>>)>>
    ELSE <<>>

\* Defect: print instead of print_cr, the line is not ended
DurationEvents_NoNewline(end) ==
  <<out_print(DurationFormat, <<counter_to_millis(end - _start)>>)>>

\* Defect: the duration is measured from tick 0, not from _start
DurationEvents_FromZero(end) ==
  <<out_print(DurationFormat, <<counter_to_millis(end)>>), out_cr>>

\* out.print_cr(" %.3fms", duration_in_ms)
DurationEvents(end) ==
  LET duration_in_ms == counter_to_millis(end - _start)
  IN  <<out_print(DurationFormat, <<duration_in_ms>>), out_cr>>

\* for (int i = first; i < limit; i++) out.print(fmt, indices[i]):
\* the loop's print calls as one event <<first, limit, indices>>, where
\* indices is the number of the table that the buffer holds.
out_print_each(fmt, first, limit, indices) ==
  [ev |-> "print_each", fmt |-> fmt, args |-> <<first, limit, indices>>,
   nr |-> 0, mode |-> 0, ret |-> 0]

\* The arguments of the print calls of a print_each event, in call order
PrintedEntries(e) ==
  [k \in 1..(e.args[2] - e.args[1]) |-> Table(e.args[3])[e.args[1] + k - 1]]

\* Defect: the loop stops one entry early
TableEvents_SkipsLast(indices) ==
  <<out_print("faulty page index: ", <<>>),
    out_print_each(SIZE_FORMAT \o ",", 0, NumIndices - 1, indices),
    out_cr>>

\* The table line: "faulty page index: " and every buffer entry, in order
TableEvents(indices) ==
  <<out_print("faulty page index: ", <<>>),
    out_print_each(SIZE_FORMAT \o ",", 0, NumIndices, indices),
    out_cr>>

\* Defect: the reset is issued only when the buffer was allocated
PageIndexEvents_ResetNeedsBuffer(buf, ret3, table, ret2) ==
  IF _log_heap_usage /\ StrStr(_title, PauseFull)
    THEN <<Malloc(buf)>> \o
         (IF buf /= 0
            THEN <<Syscall(455, 3, IF ret3 = 0 THEN <<table>> ELSE <<>>, ret3)>> \o
                 (IF ret3 = 0 THEN TableEvents(table) ELSE <<>>) \o
                 <<Free, Syscall(455, 2, <<>>, ret2)>>
            ELSE <<>>)
    ELSE <<>>

\* Defect: the page-index block runs for every title
PageIndexEvents_AnyTitle(buf, ret3, table, ret2) ==
  IF _log_heap_usage
    THEN <<Malloc(buf)>> \o
         (IF buf /= 0
            THEN <<Syscall(455, 3, IF ret3 = 0 THEN <<table>> ELSE <<>>, ret3)>> \o
                 (IF ret3 = 0 THEN TableEvents(table) ELSE <<>>) \o
                 <<Free>>
            ELSE <<>>) \o
         <<Syscall(455, 2, <<>>, ret2)>>
    ELSE <<>>

\* The page-index diagnostic of a "Pause Full" event
PageIndexEvents(buf, ret3, table, ret2) ==
  IF _log_heap_usage /\ StrStr(_title, PauseFull)
    THEN <<Malloc(buf)>> \o
         (IF buf /= 0
            THEN <<Syscall(455, 3, IF ret3 = 0 THEN <<table>> ELSE <<>>, ret3)>> \o
                 (IF ret3 = 0 THEN TableEvents(table) ELSE <<>>) \o
                 <<Free>>
            ELSE <<>>) \o
         <<Syscall(455, 2, <<>>, ret2)>>
    ELSE <<>>

\* Defect: log_end restarts the timer
log_end_Restarts(end, used, capacity, ret452, counter, buf, ret3, table, ret2) ==
  /\ pc \in {"started", "ended"}
  /\ end >= _start
  /\ end_tick' = end
  /\ ends' = ends + 1
  /\ end_events' = TitleEvents \o
                   UsageEvents(used, capacity, ret452, counter) \o
                   DurationEvents(end) \o
                   PageIndexEvents(buf, ret3, table, ret2)
  /\ pc' = "ended"
  /\ _start' = end
  /\ UNCHANGED <<_title, _gc_cause, _log_heap_usage, _heap_usage_before,
                 _majflt_before, start_events, ctor_majflt>>
  /\ UNCHANGED <<cpu_vars, kernel_vars>>

log_end(end, used, capacity, ret452, counter, buf, ret3, table, ret2) ==
  /\ pc \in {"started", "ended"}
  /\ end >= _start
  /\ end_tick' = end
  /\ ends' = ends + 1
  /\ end_events' = TitleEvents \o
                   UsageEvents(used, capacity, ret452, counter) \o
                   DurationEvents(end) \o
                   PageIndexEvents(buf, ret3, table, ret2)
  /\ pc' = "ended"
  /\ UNCHANGED <<_title, _gc_cause, _log_heap_usage, _heap_usage_before,
                 _majflt_before, _start, start_events, ctor_majflt>>
  /\ UNCHANGED <<cpu_vars, kernel_vars>>

----------------------------------------------------------------------------
(* GCTraceCPUTime *)

\* Times read from os::getTimesSecs, in clock ticks
CpuTimes == 0..MaxCpuTime

\* log_is_enabled(Info, gc, cpu) returning r
LogIsEnabled(r) ==
  [ev |-> "log_is_enabled", fmt |-> "", args |-> <<>>, ret |-> r]
\* tracer->should_report_cpu_time_event() returning r
ShouldReport(r) ==
  [ev |-> "should_report_cpu_time_event", fmt |-> "", args |-> <<>>, ret |-> r]
\* os::getTimesSecs(&real, &user, &system) returning valid; the three
\* outputs are written on success only
GetTimesSecs(valid, real, user, system) ==
  [ev |-> "getTimesSecs", fmt |-> "",
   args |-> IF valid THEN <<real, user, system>> ELSE <<>>, ret |-> valid]
LogWarning(fmt) ==
  [ev |-> "log_warning", fmt |-> fmt, args |-> <<>>, ret |-> TRUE]
LogInfo(fmt, args) ==
  [ev |-> "log_info", fmt |-> fmt, args |-> args, ret |-> TRUE]
\* _tracer->report_cpu_time_event(user, system, real)
ReportCpuTimeEvent(user, system, real) ==
  [ev |-> "report_cpu_time_event", fmt |-> "",
   args |-> <<user, system, real>>, ret |-> TRUE]

InvalidResult == "TraceCPUTime: os::getTimesSecs() returned invalid result"
CpuFormat == "User=%3.2fs Sys=%3.2fs Real=%3.2fs"

\* Before construction
CPUUnborn ==
  /\ _active = FALSE
  /\ _starting_user_time = 0
  /\ _starting_system_time = 0
  /\ _starting_real_time = 0
  /\ _tracer = "nullptr"
  /\ cpu_pc = "unborn"
  /\ ctor_events = <<>>
  /\ dtor_events = <<>>

\* Defect: the tracer is asked even when logging is enabled
ActiveQueries_Eager(tracer, enabled, interested) ==
  <<LogIsEnabled(enabled)>> \o
  (IF tracer /= "nullptr" THEN <<ShouldReport(interested)>> ELSE <<>>)

\* The queries that decide _active in the initializer list (|| and &&
\* evaluate their right operand only when needed)
ActiveQueries(tracer, enabled, interested) ==
  <<LogIsEnabled(enabled)>> \o
  (IF ~enabled /\ tracer /= "nullptr" THEN <<ShouldReport(interested)>> ELSE <<>>)

\* _active as the initializer list computes it
InitiallyActive(tracer, enabled, interested) ==
  enabled \/ (tracer /= "nullptr" /\ interested)

\* Defect: _active is not cleared after an invalid read
ActiveAfterRead_NotCleared(active, valid) == active

\* _active after the constructor body: if (!valid) _active = false
ActiveAfterRead(active, valid) == active /\ valid

\* The constructor body
CtorBody(active, valid, real, user, system) ==
  IF active
    THEN <<GetTimesSecs(valid, real, user, system)>> \o
         (IF ~valid THEN <<LogWarning(InvalidResult)>> ELSE <<>>)
    ELSE <<>>

GCTraceCPUTime_ctor(tracer, enabled, interested, valid, real, user, system) ==
  LET active == InitiallyActive(tracer, enabled, interested)
  IN  /\ cpu_pc = "unborn"
      /\ ctor_events' = ActiveQueries(tracer, enabled, interested) \o
                        CtorBody(active, valid, real, user, system)
      /\ _active' = ActiveAfterRead(active, valid)
      /\ _starting_real_time' = IF active /\ valid THEN real ELSE 0
      /\ _starting_user_time' = IF active /\ valid THEN user ELSE 0
      /\ _starting_system_time' = IF active /\ valid THEN system ELSE 0
      /\ _tracer' = tracer
      /\ cpu_pc' = "live"
      /\ UNCHANGED dtor_events
      /\ UNCHANGED <<timer_vars, kernel_vars>>

\* Defect: the tracer is given the deltas in the order of the read
ReportEvents_ReadOrder(real, user, system) ==
  LET user_time == user - _starting_user_time
      system_time == system - _starting_system_time
      real_time == real - _starting_real_time
  IN  <<LogInfo(CpuFormat, <<user_time, system_time, real_time>>)>> \o
      (IF _tracer /= "nullptr"
         THEN <<ReportCpuTimeEvent(real_time, user_time, system_time)>>
         ELSE <<>>)

\* What the destructor does after a valid read
ReportEvents(real, user, system) ==
  LET user_time == user - _starting_user_time
      system_time == system - _starting_system_time
      real_time == real - _starting_real_time
  IN  <<LogInfo(CpuFormat, <<user_time, system_time, real_time>>)>> \o
      (IF _tracer /= "nullptr"
         THEN <<ReportCpuTimeEvent(user_time, system_time, real_time)>>
         ELSE <<>>)

\* Defect: the destructor does not test _active
DtorBody_Ungated(valid, real, user, system) ==
  <<GetTimesSecs(valid, real, user, system)>> \o
  (IF valid
     THEN <<LogInfo(CpuFormat, <<user - _starting_user_time,
                                 system - _starting_system_time,
                                 real - _starting_real_time>>)>>
     ELSE <<LogWarning(InvalidResult)>>)

\* Defect: after an invalid read the tracer is still given a report
DtorBody_ReportsOnFailure(valid, real, user, system) ==
  IF _active
    THEN <<GetTimesSecs(valid, real, user, system)>> \o
         (IF valid
            THEN <<LogInfo(CpuFormat, <<user - _starting_user_time,
                                        system - _starting_system_time,
                                        real - _starting_real_time>>)>>
            ELSE <<LogWarning(InvalidResult)>>) \o
         (IF _tracer /= "nullptr"
            THEN <<ReportCpuTimeEvent(0, 0, 0)>>
            ELSE <<>>)
    ELSE <<>>

\* The destructor body
DtorBody(valid, real, user, system) ==
  IF _active
    THEN <<GetTimesSecs(valid, real, user, system)>> \o
         (IF valid
            THEN ReportEvents(real, user, system)
            ELSE <<LogWarning(InvalidResult)>>)
    ELSE <<>>

GCTraceCPUTime_dtor(valid, real, user, system) ==
  /\ cpu_pc = "live"
  /\ dtor_events' = DtorBody(valid, real, user, system)
  /\ cpu_pc' = "dead"
  /\ UNCHANGED <<_active, _starting_user_time, _starting_system_time,
                 _starting_real_time, _tracer, ctor_events>>
  /\ UNCHANGED <<timer_vars, kernel_vars>>

----------------------------------------------------------------------------
(* Specifications *)

\* The event timer alone
\* After a reset the page-index profile is the table number Cleared
Cleared == 0

\* No event on another thread
NoOtherEvent ==
  /\ profile = Cleared
  /\ booted = profile
  /\ other_pc = "absent"
  /\ other_seen = -1

Init == TimerConstructed /\ CPUUnborn /\ NoOtherEvent

StartEvent ==
  /\ pc = "constructed"
  /\ \E start \in Ticks, used \in HeapSizes, r \in Outcomes452 :
       log_start(start, used, r[1], r[2])

\* The heap is at its largest capacity
EndEvent ==
  /\ pc = "started"
  /\ \E end \in Ticks, used \in HeapSizes, capacity \in {HeapBytes(MaxHeapStep)},
        r \in Outcomes452, q \in PageOutcomes, ret2 \in SyscallResults :
       /\ SizeLeq(used, capacity)
       /\ log_end(end, used, capacity, r[1], r[2], q[1], q[2], q[3], ret2)

Next == StartEvent \/ EndEvent

Spec == Init /\ [][Next]_vars

\* One instance on which log_end is called up to MaxEnds times after
\* log_start, each time at a later or equal tick and with fresh results of
\* the major-fault read and of the page-index calls; the heap is full.
RepeatedEnd ==
  /\ pc \in {"started", "ended"}
  /\ ends < MaxEnds
  /\ \E end \in Ticks, r \in Outcomes452, q \in PageOutcomes :
       log_end(end, HeapBytes(MaxHeapStep), HeapBytes(MaxHeapStep),
               r[1], r[2], q[1], q[2], q[3], 0)

NextRepeat == StartEvent \/ RepeatedEnd

\* A "Pause Young" or a "Pause Full" event without cause
InitRepeat ==
  /\ Init
  /\ _title \in {PauseYoung, PauseFull}
  /\ _gc_cause = NoGC

SpecRepeat == InitRepeat /\ [][NextRepeat]_vars

\* Two events on different threads.  This event is the instance above and
\* its log_end runs in three steps, so that steps of the other event fall
\* in between: the end line (lines 60-90), the buffer and the page-index
\* query (lines 95-104), the reset (line 107).  A successful query returns
\* the kernel's profile; a successful reset clears it.  The other event is
\* a "Pause Full" event with usage tracking on its own instance; of its
\* steps, its query and its reset touch the kernel.

\* Does log_end run the page-index block ?
HasPageIndexBlock == Len(PageIndexEvents(0, -1, Cleared, 0)) > 0

\* log_end up to and including print_cr of the duration
EndLineStep ==
  /\ pc = "started"
  /\ \E end \in Ticks, r \in Outcomes452 :
       /\ end >= _start
       /\ end_tick' = end
       /\ end_events' = TitleEvents \o
                        UsageEvents(HeapBytes(MaxHeapStep), HeapBytes(MaxHeapStep),
                                    r[1], r[2]) \o
                        DurationEvents(end)
  /\ ends' = ends + 1
  /\ pc' = IF HasPageIndexBlock THEN "timed" ELSE "ended"
  /\ UNCHANGED <<_title, _gc_cause, _log_heap_usage, _heap_usage_before,
                 _majflt_before, _start, start_events, ctor_majflt>>
  /\ UNCHANGED <<cpu_vars, kernel_vars>>

\* malloc, syscall(455, 3, indices, 0), the table line, free
QueryStep ==
  /\ pc = "timed"
  /\ \E buf \in {0, 1}, ret3 \in SyscallResults :
       LET block == PageIndexEvents(buf, ret3, profile, 0)
       IN  end_events' = end_events \o SubSeq(block, 1, Len(block) - 1)
  /\ pc' = "queried"
  /\ UNCHANGED <<_title, _gc_cause, _log_heap_usage, _heap_usage_before,
                 _majflt_before, _start, start_events, ctor_majflt, end_tick, ends>>
  /\ UNCHANGED <<cpu_vars, kernel_vars>>

\* syscall(455, 2, NULL, 0)
ResetStep ==
  /\ pc = "queried"
  /\ \E ret2 \in SyscallResults :
       LET block == PageIndexEvents(0, -1, Cleared, ret2)
       IN  /\ end_events' = end_events \o <<block[Len(block)]>>
           /\ profile' = IF ret2 = 0 THEN Cleared ELSE profile
  /\ pc' = "ended"
  /\ UNCHANGED <<_title, _gc_cause, _log_heap_usage, _heap_usage_before,
                 _majflt_before, _start, start_events, ctor_majflt, end_tick, ends>>
  /\ UNCHANGED <<cpu_vars, booted, other_pc, other_seen>>

\* The other event's syscall(455, 3, indices, 0); with no buffer or on
\* failure it sees no table
OtherQuery ==
  /\ other_pc = "running"
  /\ \E ret3 \in SyscallResults :
       other_seen' = IF ret3 = 0 THEN profile ELSE -1
  /\ other_pc' = "queried"
  /\ UNCHANGED <<timer_vars, cpu_vars, profile, booted>>

\* The other event's syscall(455, 2, NULL, 0)
OtherReset ==
  /\ other_pc = "queried"
  /\ \E ret2 \in SyscallResults :
       profile' = IF ret2 = 0 THEN Cleared ELSE profile
  /\ other_pc' = "ended"
  /\ UNCHANGED <<timer_vars, cpu_vars, booted, other_seen>>

\* This event is a "Pause Young" or a "Pause Full" event without cause; the
\* kernel holds any profile
InitConcurrent ==
  /\ TimerConstructed
  /\ CPUUnborn
  /\ _title \in {PauseYoung, PauseFull}
  /\ _gc_cause = NoGC
  /\ profile \in Tables
  /\ booted = profile
  /\ other_pc = "running"
  /\ other_seen = -1

NextConcurrent ==
  StartEvent \/ EndLineStep \/ QueryStep \/ ResetStep \/ OtherQuery \/ OtherReset

SpecConcurrent == InitConcurrent /\ [][NextConcurrent]_vars

\* The CPU-time sampler alone, next to a timer that is not used
TimerUnused ==
  /\ TimerConstructed
  /\ _title = PauseYoung
  /\ _gc_cause = NoGC
  /\ _log_heap_usage = FALSE
  /\ _majflt_before = SizeFromInt(0)

InitCPU == TimerUnused /\ CPUUnborn /\ NoOtherEvent

EnterScope ==
  /\ cpu_pc = "unborn"
  /\ \E tracer \in {"nullptr", "tracer"}, enabled \in BOOLEAN,
        interested \in BOOLEAN, valid \in BOOLEAN,
        real \in CpuTimes, user \in CpuTimes, system \in CpuTimes :
       GCTraceCPUTime_ctor(tracer, enabled, interested, valid, real, user, system)

LeaveScope ==
  /\ cpu_pc = "live"
  /\ \E valid \in BOOLEAN, real \in CpuTimes, user \in CpuTimes, system \in CpuTimes :
       /\ real >= _starting_real_time
       /\ user >= _starting_user_time
       /\ system >= _starting_system_time
       /\ GCTraceCPUTime_dtor(valid, real, user, system)

NextCPU == EnterScope \/ LeaveScope

SpecCPU == InitCPU /\ [][NextCPU]_vars

----------------------------------------------------------------------------
(* Reading the traces *)

\* The major-fault read of log_start / of log_end succeeded, failed
StartReadOk == Has(start_events, "read452") /\ The(start_events, "read452").ret = 0
StartReadFailed == Has(start_events, "read452") /\ The(start_events, "read452").ret /= 0
EndReadOk == Has(end_events, "read452") /\ The(end_events, "read452").ret = 0
EndReadFailed == Has(end_events, "read452") /\ The(end_events, "read452").ret /= 0

\* The end line has a usage / majflt segment, and the values it shows
HasUsageSegment == Has(end_events, "usage")
ShownBefore == The(end_events, "usage").args[4]
ShownAfter == The(end_events, "usage").args[5]

\* The title contains the marker "Pause Full"
TitleHasMarker ==
  \E i \in 0..Len(_title) :
    /\ i + Len(PauseFull) <= Len(_title)
    /\ \A k \in 1..Len(PauseFull) : _title[i + k] = PauseFull[k]

Ended == pc = "ended"

----------------------------------------------------------------------------
(* Claims about GCTraceTimeLoggerImpl, checked under Spec *)

\* C1: in the majflt segment of the end line a fault value is shown as a
\* possible counter value (a value in the range of the unsigned int counter)
\* only if the read that produced it succeeded; after a failed read the
\* value shown is outside that range.  This covers the "before" value left
\* at its constructor default when the read of log_start failed.
C1_OnlySuccessfulReadsShown ==
  (Ended /\ HasUsageSegment) =>
    /\ StartReadFailed => ~InUIntRange(ShownBefore)
    /\ EndReadFailed => ~InUIntRange(ShownAfter)

\* C4: with usage tracking disabled the end line is exactly the title, the
\* optional " (cause)" and the duration: no usage segment, no majflt segment.
C4_NoUsageSegmentWhenDisabled ==
  (Ended /\ ~_log_heap_usage) =>
    LET line == LineOf(end_events, 1)
        n == Len(line)
    IN  /\ ~HasUsageSegment
        /\ n = IF _gc_cause = NoGC THEN 2 ELSE 3
        /\ line[1] = out_print("%s", <<_title>>)
        /\ _gc_cause /= NoGC => line[2].fmt = " (%s)"
        /\ Kind(line[n]) = "duration"
        /\ ~Has(end_events, "read452")

C4_Witness ==
  /\ Ended
  /\ ~_log_heap_usage
  /\ _gc_cause /= NoGC
  /\ Len(LineOf(end_events, 1)) = 3

\* C5: every log_end, whatever fails (major-fault read, page-index query,
\* buffer allocation), emits exactly one timing line, a line that ends in
\* " <duration>ms", and runs to its last statement; log_start likewise runs
\* to its end after a failed read.
C5_TimingLineAlwaysEmitted ==
  /\ pc /= "constructed" => start_events[Len(TitleEvents) + 1] = out_cr
  /\ Ended =>
       LET durations == Where(end_events, "duration")
           d == CHOOSE i \in durations : TRUE
           line == LineOf(end_events, 1)
           last == end_events[Len(end_events)]
       IN  /\ Cardinality(durations) = 1
           /\ d < Len(end_events)
           /\ end_events[d + 1] = out_cr
           /\ NumLines(end_events) >= 1
           /\ Kind(line[Len(line)]) = "duration"
           /\ line[1] = out_print("%s", <<_title>>)
           /\ IF _log_heap_usage /\ TitleHasMarker
                THEN Kind(last) = "reset"
                ELSE last = out_cr

\* Every failure at once: both major-fault reads and the buffer allocation
C5_Witness ==
  /\ Ended
  /\ StartReadFailed
  /\ EndReadFailed
  /\ \E i \in 1..Len(end_events) :
       end_events[i].ev = "malloc" /\ end_events[i].ret = 0

\* A failed page-index query
C5_WitnessQueryFailed ==
  /\ Ended
  /\ EndReadFailed
  /\ Has(end_events, "query")
  /\ The(end_events, "query").ret /= 0

\* C6: a log_end of an event with usage tracking enabled whose title
\* contains "Pause Full" issues exactly one reset call (syscall 455, mode 2),
\* after the query attempt (mode 3), whether the query succeeded, failed or
\* was never issued; a log_end of any other event issues neither.
C6_ResetExactlyOnce ==
  Ended =>
    LET resets == Where(end_events, "reset")
        queries == Where(end_events, "query")
        mallocs == {i \in 1..Len(end_events) : end_events[i].ev = "malloc"}
    IN  IF _log_heap_usage /\ TitleHasMarker
          THEN /\ Cardinality(resets) = 1
               /\ Cardinality(queries) <= 1
               /\ Cardinality(mallocs) = 1
               /\ \A r \in resets : \A q \in queries \cup mallocs : q < r
               /\ \A r \in resets : r = Len(end_events)
          ELSE resets = {} /\ queries = {}

\* The query was never issued (no buffer), and the reset still was
C6_Witness ==
  /\ Ended
  /\ ~Has(end_events, "query")
  /\ Has(end_events, "reset")
  /\ _title /= PauseFull

\* The query failed, and the reset still was issued
C6_WitnessQueryFailed ==
  /\ Ended
  /\ Has(end_events, "query")
  /\ The(end_events, "query").ret /= 0
  /\ Has(end_events, "reset")

----------------------------------------------------------------------------
(* Reading the traces of GCTraceCPUTime *)

Constructed == cpu_pc /= "unborn"
Destroyed == cpu_pc = "dead"
CtorReadFailed == Has(ctor_events, "getTimesSecs") /\ ~The(ctor_events, "getTimesSecs").ret
CtorReadOk == Has(ctor_events, "getTimesSecs") /\ The(ctor_events, "getTimesSecs").ret
DtorReadFailed == Has(dtor_events, "getTimesSecs") /\ ~The(dtor_events, "getTimesSecs").ret
DtorReadOk == Has(dtor_events, "getTimesSecs") /\ The(dtor_events, "getTimesSecs").ret
LoggingEnabled == The(ctor_events, "log_is_enabled").ret

----------------------------------------------------------------------------
(* Claims about GCTraceCPUTime, checked under SpecCPU *)

\* C2: an instance whose time read failed during construction, or that was
\* constructed inactive because neither logging nor the tracer asked for CPU
\* time, is inactive, and its destructor does nothing: no time read, no info
\* line, no tracer report; the only warning is the one of the constructor
\* after a failed read.
C2_NothingAfterFailedConstruction ==
  (Constructed /\ (CtorReadFailed \/ ~Has(ctor_events, "getTimesSecs"))) =>
    /\ ~_active
    /\ Destroyed => Len(dtor_events) = 0
    /\ Count(ctor_events, "log_warning") = IF CtorReadFailed THEN 1 ELSE 0
    /\ Count(ctor_events, "log_info") = 0
    /\ Count(ctor_events, "report_cpu_time_event") = 0
    /\ Count(ctor_events, "getTimesSecs") <= 1

C2_Witness ==
  /\ Destroyed
  /\ CtorReadFailed
  /\ _tracer = "tracer"
  /\ LoggingEnabled

\* Constructed inactive: nobody asked for CPU time
C2_WitnessInactive ==
  /\ Destroyed
  /\ ~Has(ctor_events, "getTimesSecs")
  /\ _tracer = "tracer"

\* C3: when the sampler is active and both reads succeed, the info line is
\* logged with the three deltas end - start of user, system and real time,
\* each from its own baseline, and a supplied tracer is given the same three
\* values in the order user, system, real.
C3_DeltasLoggedAndReported ==
  (Destroyed /\ CtorReadOk /\ DtorReadOk) =>
    LET s == The(ctor_events, "getTimesSecs").args
        e == The(dtor_events, "getTimesSecs").args
        info == The(dtor_events, "log_info")
    IN  /\ Count(dtor_events, "log_info") = 1
        /\ info.fmt = CpuFormat
        /\ info.args = <<e[2] - s[2], e[3] - s[3], e[1] - s[1]>>
        /\ IF _tracer = "tracer"
             THEN /\ Count(dtor_events, "report_cpu_time_event") = 1
                  /\ The(dtor_events, "report_cpu_time_event").args = info.args
             ELSE Count(dtor_events, "report_cpu_time_event") = 0

\* Three different deltas reach the tracer
C3_Witness ==
  /\ Destroyed
  /\ _tracer = "tracer"
  /\ Has(dtor_events, "report_cpu_time_event")
  /\ The(dtor_events, "report_cpu_time_event").args = <<0, 1, 2>>
  /\ _starting_user_time = 1

\* C7: the life of an instance is Inactive (terminal), or Active and then
\* Reported (terminal) or Failed (terminal).  The activity flag is decided by
\* the constructor and never goes from false to true afterwards; no step
\* leads back to an earlier state; the info line and the tracer report are
\* produced at most once, by the destructor only.
C7_States ==
  /\ Count(ctor_events, "log_info") = 0
  /\ Count(ctor_events, "report_cpu_time_event") = 0
  /\ Count(dtor_events, "log_info") <= 1
  /\ Count(dtor_events, "report_cpu_time_event") <= 1
  /\ cpu_pc /= "dead" => Len(dtor_events) = 0
  /\ cpu_pc = "unborn" => Len(ctor_events) = 0
  /\ _active => CtorReadOk
  /\ Destroyed =>
       \/ ~_active /\ Len(dtor_events) = 0
       \/ /\ _active
          /\ Count(dtor_events, "log_info") = 1
          /\ Count(dtor_events, "log_warning") = 0
       \/ /\ _active
          /\ Count(dtor_events, "log_info") = 0
          /\ Count(dtor_events, "report_cpu_time_event") = 0
          /\ Count(dtor_events, "log_warning") = 1

C7_Steps ==
  /\ (Constructed /\ ~_active) => ~_active'
  /\ cpu_pc = "live" => cpu_pc' \in {"live", "dead"}
  /\ cpu_pc = "dead" => cpu_pc' = "dead"
  /\ Constructed => ctor_events' = ctor_events

C7_StateMachine == []C7_States /\ [][C7_Steps]_vars

\* Reported: an active instance that logged its info line
C7_Witness ==
  /\ Destroyed
  /\ _active
  /\ Count(dtor_events, "log_info") = 1
  /\ _tracer = "nullptr"

\* C8: when an active sampler's read fails in the destructor, the destructor
\* logs one warning and does nothing else: no info line, no tracer report.
C8_FailedEndReadWarnsOnly ==
  (Destroyed /\ _active /\ DtorReadFailed) =>
    /\ Len(dtor_events) = 2
    /\ Kind(dtor_events[1]) = "getTimesSecs"
    /\ dtor_events[2] = LogWarning(InvalidResult)
    /\ Count(dtor_events, "log_info") = 0
    /\ Count(dtor_events, "report_cpu_time_event") = 0

C8_Witness ==
  /\ Destroyed
  /\ _active
  /\ DtorReadFailed
  /\ _tracer = "tracer"

\* C9 as claimed: a given tracer is asked whether it is interested in
\* CPU-time events exactly once, during construction, whatever the CPU-time
\* logging switch; its report operation is invoked at most once, during
\* destruction only and only when the sampler is active.
C9_InterestQueriedExactlyOnce ==
  (Constructed /\ _tracer = "tracer") =>
    /\ Count(ctor_events, "should_report_cpu_time_event") = 1
    /\ Count(dtor_events, "should_report_cpu_time_event") = 0
    /\ Count(ctor_events, "report_cpu_time_event") = 0
    /\ Count(dtor_events, "report_cpu_time_event") <= 1
    /\ Has(dtor_events, "report_cpu_time_event") => _active

\* C9 as amended: a given tracer is asked whether it is interested at most
\* once, during construction only: exactly once when CPU-time logging is
\* disabled and not at all when it is enabled; its report operation is
\* invoked at most once, during destruction only and only when the sampler
\* is active.  Without a tracer there is neither query nor report.
C9_InterestQueriedUnlessLogging ==
  Constructed =>
    /\ Count(ctor_events, "log_is_enabled") = 1
    /\ Count(ctor_events, "should_report_cpu_time_event") =
         IF _tracer = "tracer" /\ ~LoggingEnabled THEN 1 ELSE 0
    /\ Count(dtor_events, "should_report_cpu_time_event") = 0
    /\ Count(ctor_events, "report_cpu_time_event") = 0
    /\ Count(dtor_events, "report_cpu_time_event") <= 1
    /\ Has(dtor_events, "report_cpu_time_event") => (_active /\ _tracer = "tracer")

\* Logging enabled: the tracer is never asked, and still gets the report
C9_Witness ==
  /\ Destroyed
  /\ _tracer = "tracer"
  /\ LoggingEnabled
  /\ Count(ctor_events, "should_report_cpu_time_event") = 0
  /\ Has(dtor_events, "report_cpu_time_event")

----------------------------------------------------------------------------
(* Claims C11 .. C18 about GCTraceTimeLoggerImpl *)

\* The heap size of HeapBytes(k) in whole megabytes: HeapBytes(k) is
\* (k - 1) * 4G + k * 100M + 4K bytes, 4G is 4096 M and 4K is less than 1 M.
SampleMegabytes(k) == IF k = 0 THEN 0 ELSE (k - 1) * 4096 + k * 100
WholeMegabytes(x) ==
  SizeFromInt(SampleMegabytes(CHOOSE k \in 0..MaxHeapStep : HeapBytes(k) = x))

\* C11: when usage tracking is enabled and both major-fault reads succeed,
\* the "before" value printed is the counter that the read of log_start
\* returned and the "after" value printed is the counter that the read of
\* log_end returned; the usage segment prints the usage read by log_start,
\* the usage read by log_end and the capacity read by log_end, each in whole
\* megabytes (bytes / M, truncated).
C11_SegmentShowsWhatWasRead ==
  (Ended /\ _log_heap_usage /\ HasUsageSegment) =>
    LET shown == The(end_events, "usage").args
    IN  /\ shown[1] = WholeMegabytes(The(start_events, "used").args[1])
        /\ shown[2] = WholeMegabytes(The(end_events, "used").args[1])
        /\ shown[3] = WholeMegabytes(The(end_events, "capacity").args[1])
        /\ StartReadOk =>
             /\ InUIntRange(ShownBefore)
             /\ <<ShownBefore[3], ShownBefore[4]>> = The(start_events, "read452").args[1]
        /\ EndReadOk =>
             /\ InUIntRange(ShownAfter)
             /\ <<ShownAfter[3], ShownAfter[4]>> = The(end_events, "read452").args[1]

\* " 100M->0M(100M) majflt(0->1)": both reads succeeded, on different counters
C11_Witness ==
  /\ Ended
  /\ StartReadOk
  /\ EndReadOk
  /\ The(start_events, "used").args[1] = HeapBytes(1)
  /\ The(end_events, "used").args[1] = HeapBytes(0)
  /\ The(end_events, "capacity").args[1] = HeapBytes(1)
  /\ The(start_events, "read452").args[1] = UIntFromInt(0)
  /\ The(end_events, "read452").args[1] = UIntFromInt(1)
  /\ The(end_events, "usage").args =
       <<SizeFromInt(100), SizeFromInt(0), SizeFromInt(100), SizeFromInt(0), SizeFromInt(1)>>

\* C13: the duration printed by log_end is the end tick minus the start tick
\* that the preceding log_start stored, converted to milliseconds (ticks *
\* 1000 / ElapsedFrequency), for every end tick >= start tick, whether or
\* not usage tracking is enabled and whether or not the reads succeed.
C13_DurationFromStoredStart ==
  Ended =>
    /\ end_tick >= _start
    /\ Count(end_events, "duration") = 1
    /\ LET duration_in_ms == The(end_events, "duration").args[1]
       IN  /\ duration_in_ms.num = (end_tick - _start) * 1000
           /\ duration_in_ms.den = ElapsedFrequency

\* A positive duration, printed after a failed major-fault read
C13_Witness ==
  /\ Ended
  /\ end_tick > _start
  /\ EndReadFailed
  /\ The(end_events, "duration").args[1].num = (end_tick - _start) * 1000

\* A zero duration measured from a positive start tick, without usage
\* tracking
C13_WitnessZero ==
  /\ Ended
  /\ ~_log_heap_usage
  /\ _start > 0
  /\ end_tick = _start
  /\ The(end_events, "duration").args[1].num = 0

\* The calls on the heap, the statistics interface and the page-index
\* interface in a trace
ExternalCalls(t) ==
  {i \in 1..Len(t) : Kind(t[i]) \in {"used", "capacity", "read452", "query", "reset"}}

\* C14: log_start writes exactly one log line and, when usage tracking is
\* enabled, reads the memory usage exactly once and the major-fault counter
\* exactly once (no retry after a failure) and makes no other external call;
\* when usage tracking is disabled neither log_start nor log_end makes any
\* memory-usage, capacity, major-fault or page-index call; over a start/end
\* pair the memory-usage accessor is called at most twice, at most once at
\* the start and at most once at the end.
C14_ReadBudget ==
  (pc /= "constructed") =>
    /\ NumLines(start_events) = 1
    /\ _log_heap_usage =>
         /\ Count(start_events, "used") = 1
         /\ Count(start_events, "read452") = 1
         /\ Cardinality(ExternalCalls(start_events)) = 2
    /\ ~_log_heap_usage =>
         /\ ExternalCalls(start_events) = {}
         /\ ExternalCalls(end_events) = {}
    /\ Count(start_events, "used") <= 1
    /\ Count(end_events, "used") <= 1
    /\ Count(start_events, "used") + Count(end_events, "used") <= 2

\* The read of log_start failed and was not repeated; the pair read the
\* memory usage twice
C14_Witness ==
  /\ Ended
  /\ _log_heap_usage
  /\ StartReadFailed
  /\ Count(start_events, "read452") = 1
  /\ Count(start_events, "used") + Count(end_events, "used") = 2

\* A "Pause Full" event without usage tracking: no external call at all
C14_WitnessDisabled ==
  /\ Ended
  /\ ~_log_heap_usage
  /\ TitleHasMarker
  /\ ExternalCalls(end_events) = {}

\* The position of the one event of kind k in trace t
At(t, k) == CHOOSE i \in Where(t, k) : TRUE

\* The table line of the end trace: its loop event, and the table it names
TableLine == The(end_events, "print_each")

\* C15: in the log_end of an event with usage tracking whose title contains
\* "Pause Full", the timing line is ended first, then the page-index query
\* is issued, then - only if the query succeeded - one table line is written
\* that holds all 2048 entries of the buffer the query filled, in index
\* order, then the reset is issued.  If the query fails, or is not issued
\* because no buffer could be allocated, there is no table line and nothing
\* of the buffer is printed.
C15_PageIndexOrder ==
  (Ended /\ _log_heap_usage /\ TitleHasMarker) =>
    LET timing == LineEnd(end_events, 1)
        queried == Has(end_events, "query")
        succeeded == queried /\ The(end_events, "query").ret = 0
    IN  /\ Has(end_events, "duration")
        /\ At(end_events, "duration") < timing
        /\ Count(end_events, "query") <= 1
        /\ Count(end_events, "reset") = 1
        /\ At(end_events, "reset") = Len(end_events)
        /\ queried <=> The(end_events, "malloc").ret /= 0
        /\ queried => timing < At(end_events, "query")
        /\ Count(end_events, "print_each") = (IF succeeded THEN 1 ELSE 0)
        /\ NumLines(end_events) = (IF succeeded THEN 2 ELSE 1)
        /\ ~succeeded =>
             \A i \in (timing + 1)..Len(end_events) : ~IsPrint(end_events[i])
        /\ succeeded =>
             /\ At(end_events, "query") < At(end_events, "print_each")
             /\ LineEnd(end_events, 2) < At(end_events, "reset")
             /\ Len(LineOf(end_events, 2)) = 2
             /\ LineOf(end_events, 2)[2] = TableLine
             /\ TableLine.args[1] = 0
             /\ TableLine.args[2] = NumIndices
             /\ TableLine.args[3] = The(end_events, "query").args[1]
             /\ \A k \in {1, 2, NumIndices} :
                  PrintedEntries(TableLine)[k] = Table(TableLine.args[3])[k - 1]

\* The query succeeded with a table other than Table(0): the table line
\* starts with its entry 0 and ends with its entry 2047
C15_Witness ==
  /\ Ended
  /\ _log_heap_usage
  /\ TitleHasMarker
  /\ Has(end_events, "query")
  /\ The(end_events, "query").ret = 0
  /\ The(end_events, "query").args[1] = 1
  /\ PrintedEntries(TableLine)[1] = NumIndices
  /\ PrintedEntries(TableLine)[NumIndices] = 2 * NumIndices - 1
  /\ At(end_events, "print_each") < At(end_events, "reset")

\* The query failed: the timing line is the only line, the reset follows
C15_WitnessQueryFailed ==
  /\ Ended
  /\ Has(end_events, "query")
  /\ The(end_events, "query").ret /= 0
  /\ NumLines(end_events) = 1
  /\ Kind(end_events[Len(end_events)]) = "reset"

\* C16: once log_start has run, the gate of the usage segment
\* (_heap_usage_before /= SIZE_MAX) and the gate of the page-index block
\* (_log_heap_usage) agree: the end line has the usage / majflt segment
\* exactly when usage tracking is enabled.  So a log_end whose line has no
\* usage segment issues neither page-index query nor reset, and the usage
\* segment is never printed from a usage_before that is still unset.
C16_GatesAgree ==
  (pc /= "constructed") =>
    /\ (_heap_usage_before /= SIZE_MAX) <=> _log_heap_usage
    /\ Ended =>
         /\ HasUsageSegment <=> _log_heap_usage
         /\ ~HasUsageSegment =>
              /\ ~Has(end_events, "query")
              /\ ~Has(end_events, "reset")
              /\ ~Has(end_events, "malloc")
         /\ HasUsageSegment =>
              /\ Has(start_events, "used")
              /\ The(start_events, "used").args[1] /= SIZE_MAX
              /\ The(start_events, "used").args[1] = _heap_usage_before

\* A "Pause Full" event with usage tracking: segment, query and reset
C16_Witness ==
  /\ Ended
  /\ HasUsageSegment
  /\ Has(end_events, "query")
  /\ Has(end_events, "reset")

\* A "Pause Full" event without usage tracking: no segment, no page-index call
C16_WitnessDisabled ==
  /\ Ended
  /\ TitleHasMarker
  /\ ~HasUsageSegment
  /\ ~Has(end_events, "reset")

\* The fields of the instance
Fields ==
  <<_title, _gc_cause, _log_heap_usage, _heap_usage_before, _majflt_before, _start>>

\* C17: log_end changes none of the stored fields (start tick, usage_before,
\* fault_count_before, title, cause, usage flag); a field changes only in
\* log_start.  So a second log_end on the same instance prints the usage
\* segment exactly when the first did, with the same usage-before and
\* fault-count-before values, and measures its duration from the same start
\* tick.
C17_EndKeepsFields ==
  [][/\ (Fields' /= Fields) => (pc = "constructed" /\ pc' = "started")
     /\ (ends' = ends + 1) =>
          /\ Fields' = Fields
          /\ start_events' = start_events
          /\ The(end_events', "duration").args[1].num = (end_tick' - _start) * 1000
     /\ (ends' = ends + 1 /\ ends >= 1) =>
          /\ HasUsageSegment' <=> HasUsageSegment
          /\ HasUsageSegment =>
               /\ The(end_events', "usage").args[1] = The(end_events, "usage").args[1]
               /\ ShownBefore' = ShownBefore]_vars

\* After a second log_end, at a later tick than the start: the segment
\* shows the values that log_start stored
C17_Witness ==
  /\ ends = 2
  /\ Ended
  /\ StartReadOk
  /\ HasUsageSegment
  /\ _start > 0 \/ end_tick > _start
  /\ ShownBefore = _majflt_before
  /\ The(end_events, "usage").args[1] = WholeMegabytes(_heap_usage_before)

\* The print call e renders the title / the cause of the event
IsTitle(e) == e.ev = "print" /\ e.fmt = "%s" /\ e.args = <<_title>>
IsCause(e) ==
  e.ev = "print" /\ e.fmt = " (%s)" /\ e.args = <<GCCause_to_string(_gc_cause)>>

\* C18: the start line and the end line render title and cause alike: both
\* begin with the title, and " (cause)" follows the title in the start line
\* iff it follows the title in the end line, which is exactly when the cause
\* is not _no_gc.  The start line holds nothing else; the end line holds, in
\* this order, the title, the optional cause, the optional usage / majflt
\* segment and the duration, each at most once.
C18_CauseRenderedAlike ==
  LET n == IF _gc_cause /= NoGC THEN 2 ELSE 1
      startLine == LineOf(start_events, 1)
      endLine == LineOf(end_events, 1)
      u == IF HasUsageSegment THEN 1 ELSE 0
  IN  /\ (pc /= "constructed") =>
           /\ Len(startLine) = n
           /\ IsTitle(startLine[1])
           /\ (n = 2) => IsCause(startLine[2])
      /\ Ended =>
           /\ Len(endLine) = n + u + 1
           /\ IsTitle(endLine[1])
           /\ (n = 2) => IsCause(endLine[2])
           /\ SubSeq(endLine, 1, n) = startLine
           /\ (u = 1) => Kind(endLine[n + 1]) = "usage"
           /\ Kind(endLine[n + u + 1]) = "duration"

\* "Pause Full (System.gc()) ..M->..M(..M) majflt(..) ..ms" after
\* "Pause Full (System.gc())"
C18_Witness ==
  /\ Ended
  /\ _gc_cause /= NoGC
  /\ HasUsageSegment
  /\ Len(LineOf(start_events, 1)) = 2
  /\ Len(LineOf(end_events, 1)) = 4
  /\ LineOf(end_events, 1)[2] = LineOf(start_events, 1)[2]
  /\ LineOf(end_events, 1)[2].args = <<"System.gc()">>

\* Without cause and without usage tracking: "title" and "title ..ms"
C18_WitnessNoCause ==
  /\ Ended
  /\ _gc_cause = NoGC
  /\ ~HasUsageSegment
  /\ Len(LineOf(start_events, 1)) = 1
  /\ Len(LineOf(end_events, 1)) = 2

----------------------------------------------------------------------------
(* Claim C12 about concurrent events, checked under SpecConcurrent *)

\* This event's query succeeded, and the table it returned
QuerySucceeded == Has(end_events, "query") /\ The(end_events, "query").ret = 0
SeenTable == The(end_events, "query").args[1]
\* This event has issued its reset successfully
HasReset == Has(end_events, "reset") /\ The(end_events, "reset").ret = 0

\* C12 as stated: events on different threads share no mutable state, so
\* under every interleaving each event's output is what it would be had the
\* event run alone - also for two concurrent "Pause Full" events.  Alone, a
\* query returns the profile the kernel held when the events began.
C12_OutputAsIfAlone ==
  /\ QuerySucceeded => SeenTable = booted
  /\ (other_seen /= -1) => other_seen = booted

\* What each event may see of the other
C12_States ==
  /\ ~(_log_heap_usage /\ TitleHasMarker) =>
       /\ ~Has(end_events, "malloc")
       /\ ~Has(end_events, "query")
       /\ ~Has(end_events, "reset")
  /\ QuerySucceeded =>
       \/ SeenTable = booted
       \/ SeenTable = Cleared /\ other_pc = "ended"
  /\ (other_seen /= -1) =>
       \/ other_seen = booted
       \/ other_seen = Cleared /\ HasReset
  /\ (other_pc = "running" /\ ~HasReset) => profile = booted

\* What a step of one event may change
C12_Steps ==
  [][/\ (other_pc' /= other_pc) => (timer_vars' = timer_vars)
     /\ (timer_vars' /= timer_vars) => (other_pc' = other_pc /\ other_seen' = other_seen)
     /\ (profile' /= profile) =>
          \/ pc = "queried" /\ pc' = "ended" /\ HasReset'
          \/ other_pc = "queried" /\ other_pc' = "ended"]_vars

\* C12 as amended: the instances share no fields - no step of one event
\* changes a field or the output of the other event's instance - and an
\* event without usage tracking or whose title lacks "Pause Full" never
\* calls the page-index interface.  The kernel's page-index profile is
\* shared: it changes only by a reset, and the table that the query of a
\* "Pause Full" event returns is the profile from before the events unless
\* the other event's reset came first; then it is the cleared profile.
C12_OnlyProfileShared == []C12_States /\ C12_Steps

\* The other event's reset came before this event's query: the table line
\* shows the cleared profile, not the one this event would have shown alone
C12_Witness ==
  /\ Ended
  /\ QuerySucceeded
  /\ booted /= Cleared
  /\ SeenTable = Cleared
  /\ other_pc = "ended"
  /\ other_seen = booted

\* A "Pause Young" event with usage tracking beside the other event
C12_WitnessYoung ==
  /\ Ended
  /\ _title = PauseYoung
  /\ _log_heap_usage
  /\ other_pc = "ended"
  /\ Len(end_events) = 7

====
